---- MODULE Spec2Model ----
(***************************************************************************)
(* Model of DSSATTools/run.py: the Dscsm simulation environment.  One      *)
(* Dscsm instance owns a readiness flag, a run path and an output mapping; *)
(* setup() stages a workspace directory, run() compiles the inputs,        *)
(* invokes the engine and reads its outputs, close() removes the           *)
(* workspace.  The filesystem is part of the state.                        *)
(*                                                                         *)
(* File names are sequences of tokens (<<"PlantGro", ".", "OUT">>), so     *)
(* that the suffix tests of the code (i[-3:] == 'OUT', endswith('.CDE'))   *)
(* are computed on the name.  Paths are sequences of names.                *)
(***************************************************************************)
EXTENDS Integers, Sequences, FiniteSets, TLC

\* ---------------------------------------------------------------- bounds
\* Cap on the number of engine executions (the stamp carried by the files
\* the engine writes).
MaxRuns == 2
\* The @YEAR and DOY values of the rows the date reconstruction is applied to.
MaxYear == 99
MaxDoy == 365
\* The largest number of layers of a soil profile.
MaxLayers == 3

\* ------------------------------------------------------------- universe
Inst == {"a", "b"}
\* The instance the single-instance specification drives.
Main == "a"

\* Working directories a caller may pass as cwd, and the names
\* random.choices() may draw under the temp root.
CwdPaths == {"w1"}
TmpPaths == {"t1"}
\* The names drawn when two instances are set up side by side.
TwoTmpPaths == {"t1", "t2"}
Paths == CwdPaths \cup TmpPaths \cup TwoTmpPaths
None == "<None>"
Unset == "<unset>"

\* ---------------------------------------------------------------- names
BinName == <<"dscsm048">>
OutName(file) == <<file, ".", "OUT">>
ErrorOut == <<"ERROR", ".", "OUT">>
SoilName == <<"SOIL", ".", "SOL">>
WeatherName == <<"Weather">>
ControlName == <<"DSSATPRO", ".", "L48">>

\* os.listdir(self._STATIC_PATH): reference files and the asset directories.
StaticListing ==
    { <<"DETAIL", ".", "CDE">>, <<"DATA", ".", "CDE">>, <<"SOIL", ".", "CDE">>,
      <<"bin">>, <<"Genotype">>, <<"Pest">>, <<"Soil">>, <<"StandardData">> }

\* file.endswith('.CDE')
EndsWithCDE(file) ==
    /\ Len(file) >= 2
    /\ file[Len(file) - 1] = "."
    /\ file[Len(file)] = "CDE"

\* i[-3:] == 'OUT'
IsOutputFile(file) == file[Len(file)] = "OUT"

\* ---------------------------------------------------------------- paths
Path(p) == << <<p>> >>
Join(path, name) == Append(path, name)
Dirname(path) == SubSeq(path, 1, Len(path) - 1)

STATIC_PATH == << <<"DSSATTools">>, <<"static">> >>
BIN_PATH == Join(Join(STATIC_PATH, <<"bin">>), BinName)
STD_PATH == Join(STATIC_PATH, <<"StandardData">>)
CRD_PATH == Join(STATIC_PATH, <<"Genotype">>)
SLD_PATH == Join(STATIC_PATH, <<"Soil">>)

\* OUTPUTS = ['PlantGro', ]
OUTPUTS == <<"PlantGro">>
\* The output categories the engine may write.
OutputNames == {"PlantGro", "Summary"}
\* Output lists a caller may assign to OUTPUT_LIST.
OutputLists == { OUTPUTS, <<"PlantGro", "Summary">> }

VARIABLES
    SETUP,        \* SETUP[i]: self._SETUP
    RUN_PATH,     \* RUN_PATH[i]: self._RUN_PATH, Unset before the first setup()
    output,       \* output[i]: self.output, name -> stamp of the parsed file
    OUTPUT_LIST,  \* OUTPUT_LIST[i]: self.OUTPUT_LIST
    dirs,         \* the workspace directories that exist
    fs,           \* fs[p]: the entries [name, stamp] of directory p
    control,      \* control[p]: the content of DSSATPRO.L48 in p, or NoFile
    pc,           \* pc[i]: position of instance i inside run()
    pending,      \* pending[i]: locals of the run() call in progress
    engineRuns,   \* engine executions so far
    call,         \* call[i]: record of the last call of instance i (history)
    setupDone,    \* setupDone[i]: a setup() call has completed (history)
    streak,       \* streak[i]: successful run() calls in a row, up to 2 (history)
    life,         \* life[i]: "new", "closed" after close(), "reopened" after a
                  \* setup() that follows a close() (history)
    created,      \* created[i]: the existing directories that an os.mkdir of
                  \* instance i created (history)
    management,   \* the caller's management plan: initial_conditions['ICDAT']
                  \* and simulation_controls['SMODEL']
    yr, doy,      \* a row of an output table: its @YEAR and DOY values
    index,        \* the date index reconstructed for that row
    soilLayers,   \* soil.layers.items(): the layers in the order they are stored
    initial_swc,  \* management.initial_swc, in tenths
    icTable       \* management.initial_conditions['table']

progVars == << SETUP, RUN_PATH, output, OUTPUT_LIST, dirs, fs, control, pc,
               pending, engineRuns, call, setupDone, streak, life, created,
               management >>
dateVars == << yr, doy, index >>
soilVars == << soilLayers, initial_swc, icTable >>
vars == << progVars, dateVars, soilVars >>

NoFile == [absent |-> TRUE]
\* A name that is not a key of self.output.
NoTable == [absent |-> TRUE]
NoPending == [management_filename |-> <<>>, wrote |-> <<>>]
\* A management plan whose derived fields were never filled.
NewManagement == [ICDAT |-> Unset, SMODEL |-> Unset]

Names(entries) == { e.name : e \in entries }

\* Writing `names` into a directory with stamp s: an existing entry of the
\* same name is replaced.
WriteAll(entries, names, s) ==
    { e \in entries : e.name \notin names } \cup
    { [name |-> n, stamp |-> s] : n \in names }

StampOf(entries, n) == (CHOOSE e \in entries : e.name = n).stamp

NoIndex == [absent |-> TRUE]

NoCall ==
    [op |-> "none", result |-> "none", msg |-> <<>>, engine |-> 0, rc |-> -1,
     produced |-> {}, stamp |-> 0, parsed |-> {}, copiedBin |-> FALSE,
     start |-> Unset, tick |-> FALSE]

\* The record of a new call `op` of instance i.
NewCall(i, op, result) ==
    [NoCall EXCEPT !.op = op, !.result = result, !.tick = ~call[i].tick]

\* ----------------------------------------------------------------- Init
\* Dscsm.__init__; directory w1 exists beforehand and holds an output file of
\* some earlier session.
InitProg ==
    /\ SETUP = [i \in Inst |-> FALSE]
    /\ RUN_PATH = [i \in Inst |-> Unset]
    /\ output = [i \in Inst |-> [n \in OutputNames |-> NoTable]]
    /\ OUTPUT_LIST = [i \in Inst |-> OUTPUTS]
    /\ dirs = {"w1"}
    /\ fs = [p \in Paths |->
                IF p = "w1" THEN {[name |-> OutName("Summary"), stamp |-> 0]}
                ELSE {}]
    /\ control = [p \in Paths |-> NoFile]
    /\ pc = [i \in Inst |-> "idle"]
    /\ pending = [i \in Inst |-> NoPending]
    /\ engineRuns = 0
    /\ call = [i \in Inst |-> NoCall]
    /\ setupDone = [i \in Inst |-> FALSE]
    /\ streak = [i \in Inst |-> 0]
    /\ life = [i \in Inst |-> "new"]
    /\ created = [i \in Inst |-> {}]
    /\ management = NewManagement

\* A row of PlantGro.OUT that is not looked at.
InitRow ==
    /\ yr = 23
    /\ doy = 45
    /\ index = NoIndex

\* A one-layer soil whose table is not looked at (limits in thousandths).
InitSoil ==
    /\ soilLayers = << [depth |-> 30, SLLL |-> 100, SDUL |-> 300] >>
    /\ initial_swc = 5
    /\ icTable = NoTable

Init ==
    /\ InitProg
    /\ InitRow
    /\ InitSoil

\* ---------------------------------------------------------------- setup
\* The directory setup() must create: the cwd when it does not exist, the
\* temp directory always.
NeedsMkdir(cwd, path) == IF cwd # None THEN path \notin dirs ELSE TRUE

\* os.mkdir(path) succeeds: the directory does not exist and the system
\* lets it be created.
MkdirOk(path, allowed) == path \notin dirs /\ allowed

CopiesBin_Always(entries) == TRUE

\* The engine binary is copied unless the workspace already holds it.
CopiesBin(entries) == BinName \notin Names(entries)

\* The static files setup() copies.
CdeFiles == { file \in StaticListing : EndsWithCDE(file) }

\* The workspace entries after the copy steps of setup().
Staged(entries) ==
    WriteAll(IF CopiesBin(entries)
                 THEN WriteAll(entries, {BinName}, 0)
                 ELSE entries,
             CdeFiles, 0)

\* setup(cwd, overwrite): tmp is the name random.choices() draws, allowed
\* whether the system lets a directory be created.  overwrite is not read.
Setup(i, cwd, overwrite, tmp, allowed) ==
    /\ pc[i] = "idle"
    /\ LET path == IF cwd # None THEN cwd ELSE tmp
           mk == NeedsMkdir(cwd, path)
       IN  /\ RUN_PATH' = [RUN_PATH EXCEPT ![i] = path]
           /\ life' = [life EXCEPT ![i] = IF @ = "new" THEN "new" ELSE "reopened"]
           /\ streak' = [streak EXCEPT ![i] = 0]
           /\ IF mk /\ ~MkdirOk(path, allowed)
              THEN /\ call' = [call EXCEPT ![i] = NewCall(i, "setup", "SetupError")]
                   /\ UNCHANGED << SETUP, dirs, fs, setupDone, created >>
              ELSE /\ dirs' = dirs \cup {path}
                   /\ created' = [created EXCEPT ![i] =
                                    IF mk THEN @ \cup {path} ELSE @]
                   /\ fs' = [fs EXCEPT ![path] = Staged(fs[path])]
                   /\ SETUP' = [SETUP EXCEPT ![i] = TRUE]
                   /\ setupDone' = [setupDone EXCEPT ![i] = TRUE]
                   /\ call' = [call EXCEPT ![i] =
                                 [NewCall(i, "setup", "ok") EXCEPT
                                    !.copiedBin = CopiesBin(fs[path])]]
    /\ UNCHANGED << output, OUTPUT_LIST, control, pc, pending, engineRuns,
                    management >>
    /\ UNCHANGED << dateVars, soilVars >>

\* ---------------------------------------------------------------- close
RmtreeDirs_Keep(path) == dirs

\* shutil.rmtree(path): the directory and everything in it.
RmtreeDirs(path) == dirs \ {path}
RmtreeFs(path) == [fs EXCEPT ![path] = {}]

Close(i) ==
    /\ pc[i] = "idle"
    /\ life' = [life EXCEPT ![i] = "closed"]
    /\ streak' = [streak EXCEPT ![i] = 0]
    /\ IF RUN_PATH[i] = Unset
       THEN /\ call' = [call EXCEPT ![i] = NewCall(i, "close", "AttributeError")]
            /\ UNCHANGED << dirs, fs, control, created >>
       ELSE IF RUN_PATH[i] \notin dirs
       THEN /\ call' = [call EXCEPT ![i] = NewCall(i, "close", "FileNotFoundError")]
            /\ UNCHANGED << dirs, fs, control, created >>
       ELSE /\ dirs' = RmtreeDirs(RUN_PATH[i])
            /\ fs' = RmtreeFs(RUN_PATH[i])
            /\ control' = [control EXCEPT ![RUN_PATH[i]] = NoFile]
            /\ created' = [j \in Inst |-> created[j] \ {RUN_PATH[i]}]
            /\ call' = [call EXCEPT ![i] = NewCall(i, "close", "ok")]
    /\ UNCHANGED << SETUP, RUN_PATH, output, OUTPUT_LIST, pc, pending, engineRuns,
                    setupDone, management >>
    /\ UNCHANGED << dateVars, soilVars >>

\* The caller assigns the list of outputs to read.
SetOutputList(i, list) ==
    /\ pc[i] = "idle"
    /\ OUTPUT_LIST[i] # list
    /\ OUTPUT_LIST' = [OUTPUT_LIST EXCEPT ![i] = list]
    /\ UNCHANGED << SETUP, RUN_PATH, output, dirs, fs, control, pc, pending,
                    engineRuns, call, setupDone, streak, life, created,
                    management >>
    /\ UNCHANGED << dateVars, soilVars >>

\* ------------------------------------------------------------------ run
Ready_Always(i) == TRUE

\* assert self._SETUP
Ready(i) == SETUP[i]

Listable_Always(p) == TRUE

\* os.listdir(self._RUN_PATH) raises unless the directory exists.
Listable(p) == p \in dirs

\* OUTPUT_FILES = [i for i in os.listdir(self._RUN_PATH) if i[-3:] == 'OUT']
OutputFiles(entries) == { n \in Names(entries) : IsOutputFile(n) }

RemoveOutputs_None(entries) == entries

\* for file in OUTPUT_FILES: os.remove(...)
RemoveOutputs(entries) == { e \in entries : e.name \notin OutputFiles(entries) }

\* The inputs of a run() call: the station code, the start date as %y%m,
\* the crop code, and the step of the compilation that raises, if any.
InsiCodes == {"DPOE"}
StartMonths == {"2301"}
CropCodes == {"MZ"}
Failures == {"none", "KeyError", "management", "crop", "soil", "weather", "control"}
\* management.sim_start as its two renderings, '%y%m' and '%y%j': 1 January
\* and 15 January 2023.
SimStarts == { [yymm |-> "2301", yyj |-> "23001"],
               [yymm |-> "2301", yyj |-> "23015"] }
\* Crops by code and simulation model: maize and wheat.
Crops == { [CODE |-> "MZ", SMODEL |-> "MZCER048"],
           [CODE |-> "WH", SMODEL |-> "CSCER048"] }
\* The run() calls with start date d, crop c and failing step f.
Inputs(starts, crops, fails) ==
    { [insi |-> s, yymm |-> d.yymm, yyj |-> d.yyj, code |-> c.CODE,
       smodel |-> c.SMODEL, fail |-> f] :
        s \in InsiCodes, d \in starts, c \in crops, f \in fails }
RunInputs ==
    Inputs({ d \in SimStarts : d.yyj = "23001" },
           { c \in Crops : c.CODE \in CropCodes }, Failures)

ICDAT_Always(plan, inp) == inp.yyj

\* if not management.initial_conditions['ICDAT']: ... = sim_start.strftime('%y%j')
ICDAT(plan, inp) == IF plan.ICDAT = Unset THEN inp.yyj ELSE plan.ICDAT

\* The fields of the plan that run() fills from the start date and the crop.
CrossLink(plan, inp) == [ICDAT |-> ICDAT(plan, inp), SMODEL |-> inp.smodel]

\* weather.INSI + sim_start.strftime('%y%m') + f'.{crop.CODE}X'
ManagementName(inp) == <<inp.insi, inp.yymm, ".", inp.code, "X">>
\* os.path.join(self._RUN_PATH, management_filename)
ManagementFilename(p, inp) == Join(Path(p), ManagementName(inp))
\* The genotype files crop.write(self._RUN_PATH) puts into the directory.
CropFiles(inp) == { <<inp.code, "CER048", ".", "CUL">>, <<inp.code, "CER048", ".", "ECO">> }
\* os.path.join(self._RUN_PATH, 'SOIL.SOL')
SoilFilename(p) == Join(Path(p), SoilName)
\* wth_path = os.path.join(self._RUN_PATH, 'Weather')
WthPath(p) == Join(Path(p), WeatherName)

\* Where the four delegates write.
Wrote(p, inp) ==
    [management |-> ManagementFilename(p, inp),
     crop |-> Path(p),
     soil |-> SoilFilename(p),
     weather |-> WthPath(p)]

ControlFile_WedRunPath(p) ==
    [WED |-> Path(p),
     MMZ |-> [dir |-> Path(p), exe |-> "dscsm048", model |-> "MZCER048"],
     CRD |-> CRD_PATH,
     PSD |-> Join(STATIC_PATH, <<"Pest">>),
     SLD |-> SLD_PATH,
     STD |-> STD_PATH]

\* The lines of DSSATPRO.L48.
ControlFile(p) ==
    [WED |-> WthPath(p),
     MMZ |-> [dir |-> Path(p), exe |-> "dscsm048", model |-> "MZCER048"],
     CRD |-> CRD_PATH,
     PSD |-> Join(STATIC_PATH, <<"Pest">>),
     SLD |-> SLD_PATH,
     STD |-> STD_PATH]

\* The input files without the control file.
WrittenNames_NoControl(inp) ==
    {ManagementName(inp), SoilName, WeatherName} \cup CropFiles(inp)

\* The names written into the workspace before the step `fail` raises, in
\* the order management, crop, soil, weather, control.
WrittenNames(inp) ==
    LET f == inp.fail
        m == {ManagementName(inp)}
        c == m \cup CropFiles(inp)
        s == c \cup {SoilName}
        w == s \cup {WeatherName}
    IN  CASE f = "management" -> {}
          [] f = "crop" -> m
          [] f = "soil" -> c
          [] f = "weather" -> s
          [] f = "control" -> w
          [] OTHER -> w \cup {ControlName}

\* run(), from its entry to the engine invocation: the precondition, the
\* removal of previous outputs, the management fields, the input files.
RunCompile(i, inp) ==
    /\ pc[i] = "idle"
    /\ engineRuns < MaxRuns
    /\ LET p == RUN_PATH[i] IN
       IF ~Ready(i)
       THEN /\ call' = [call EXCEPT ![i] = NewCall(i, "run", "PreconditionError")]
            /\ UNCHANGED << fs, control, pc, pending, management >>
       ELSE IF ~Listable(p)
       THEN /\ call' = [call EXCEPT ![i] = NewCall(i, "run", "FileNotFoundError")]
            /\ UNCHANGED << fs, control, pc, pending, management >>
       ELSE IF inp.fail = "KeyError"
       THEN /\ fs' = [fs EXCEPT ![p] = RemoveOutputs(fs[p])]
            /\ call' = [call EXCEPT ![i] = NewCall(i, "run", "KeyError")]
            /\ UNCHANGED << control, pc, pending, management >>
       ELSE /\ management' = CrossLink(management, inp)
            /\ fs' = [fs EXCEPT ![p] =
                        WriteAll(RemoveOutputs(fs[p]), WrittenNames(inp), 0)]
            /\ IF inp.fail = "none"
               THEN /\ control' = [control EXCEPT ![p] = ControlFile(p)]
                    /\ pc' = [pc EXCEPT ![i] = "execute"]
                    /\ pending' = [pending EXCEPT ![i] =
                          [management_filename |-> ManagementFilename(p, inp),
                           wrote |-> Wrote(p, inp)]]
                    /\ call' = [call EXCEPT ![i] =
                                  [NewCall(i, "run", "running") EXCEPT
                                     !.start = inp.yyj]]
               ELSE /\ call' = [call EXCEPT ![i] =
                                  [NewCall(i, "run", "WriteError") EXCEPT
                                     !.start = inp.yyj]]
                    /\ UNCHANGED << control, pc, pending >>
    /\ streak' = [streak EXCEPT ![i] = IF pc'[i] = "execute" THEN @ ELSE 0]
    /\ UNCHANGED << SETUP, RUN_PATH, output, OUTPUT_LIST, dirs, engineRuns,
                    setupDone, life, created >>
    /\ UNCHANGED << dateVars, soilVars >>

\* The output files the engine may write, and its exit codes.  The engine
\* writes its error log when it exits with a non-zero code.
EngineFiles == { OutName(n) : n \in OutputNames }
ReturnCodes == {0, 1}
EngineWrites(rc, produced) == IF rc = 0 THEN produced ELSE produced \cup {ErrorOut}

EngineOk_Always(rc) == TRUE

\* assert excinfo.returncode == 0
EngineOk(rc) == rc = 0

\* subprocess.run([...], cwd=self._RUN_PATH) and the check of its exit code.
RunExecute(i, rc, produced) ==
    /\ pc[i] = "execute"
    /\ LET p == RUN_PATH[i] IN
       IF p \notin dirs
       THEN /\ call' = [call EXCEPT ![i].result = "FileNotFoundError"]
            /\ pc' = [pc EXCEPT ![i] = "idle"]
            /\ pending' = [pending EXCEPT ![i] = NoPending]
            /\ streak' = [streak EXCEPT ![i] = 0]
            /\ UNCHANGED << fs, engineRuns >>
       ELSE /\ engineRuns' = engineRuns + 1
            /\ fs' = [fs EXCEPT ![p] =
                        WriteAll(fs[p], EngineWrites(rc, produced), engineRuns + 1)]
            /\ IF EngineOk(rc)
               THEN /\ call' = [call EXCEPT ![i].engine = @ + 1, ![i].rc = rc,
                                           ![i].produced = EngineWrites(rc, produced),
                                           ![i].stamp = engineRuns + 1]
                    /\ pc' = [pc EXCEPT ![i] = "read"]
                    /\ UNCHANGED << pending, streak >>
               ELSE /\ call' = [call EXCEPT ![i].engine = @ + 1, ![i].rc = rc,
                                           ![i].produced = EngineWrites(rc, produced),
                                           ![i].stamp = engineRuns + 1,
                                           ![i].result = "EngineExecutionError",
                                           ![i].msg = Join(Path(p), ErrorOut)]
                    /\ pc' = [pc EXCEPT ![i] = "idle"]
                    /\ pending' = [pending EXCEPT ![i] = NoPending]
                    /\ streak' = [streak EXCEPT ![i] = 0]
    /\ UNCHANGED << SETUP, RUN_PATH, output, OUTPUT_LIST, dirs, control,
                    setupDone, life, created, management >>
    /\ UNCHANGED << dateVars, soilVars >>

\* The loop with a missing file skipped instead of asserted.
RECURSIVE ReadLoop_Skip(_, _, _, _, _, _)
ReadLoop_Skip(list, k, p, unparsable, out, parsed) ==
    IF k > Len(list)
    THEN [out |-> out, parsed |-> parsed, result |-> "ok", msg |-> <<>>]
    ELSE IF OutName(list[k]) \notin OutputFiles(fs[p])
    THEN ReadLoop_Skip(list, k + 1, p, unparsable, out, parsed)
    ELSE IF list[k] \in unparsable
    THEN [out |-> out, parsed |-> parsed, result |-> "ParseError", msg |-> <<>>]
    ELSE ReadLoop_Skip(list, k + 1, p, unparsable,
                       [out EXCEPT ![list[k]] =
                           [stamp |-> StampOf(fs[p], OutName(list[k]))]],
                       parsed \cup {list[k]})

\* The loop with the table of a missing file dropped from the mapping.
RECURSIVE ReadLoop_Drop(_, _, _, _, _, _)
ReadLoop_Drop(list, k, p, unparsable, out, parsed) ==
    IF k > Len(list)
    THEN [out |-> out, parsed |-> parsed, result |-> "ok", msg |-> <<>>]
    ELSE IF OutName(list[k]) \notin OutputFiles(fs[p])
    THEN [out |-> [out EXCEPT ![list[k]] = NoTable], parsed |-> parsed,
          result |-> "OutputMissingError",
          msg |-> Join(Path(p), OutName(list[k]))]
    ELSE IF list[k] \in unparsable
    THEN [out |-> out, parsed |-> parsed, result |-> "ParseError", msg |-> <<>>]
    ELSE ReadLoop_Drop(list, k + 1, p, unparsable,
                       [out EXCEPT ![list[k]] =
                           [stamp |-> StampOf(fs[p], OutName(list[k]))]],
                       parsed \cup {list[k]})

\* The loop over self.OUTPUT_LIST from position k: the assertion that the
\* file exists, pd.read_csv and the date index (which raise for the names in
\* unparsable), the store into self.output.
RECURSIVE ReadLoop(_, _, _, _, _, _)
ReadLoop(list, k, p, unparsable, out, parsed) ==
    IF k > Len(list)
    THEN [out |-> out, parsed |-> parsed, result |-> "ok", msg |-> <<>>]
    ELSE IF OutName(list[k]) \notin OutputFiles(fs[p])
    THEN [out |-> out, parsed |-> parsed, result |-> "OutputMissingError",
          msg |-> Join(Path(p), OutName(list[k]))]
    ELSE IF list[k] \in unparsable
    THEN [out |-> out, parsed |-> parsed, result |-> "ParseError", msg |-> <<>>]
    ELSE ReadLoop(list, k + 1, p, unparsable,
                  [out EXCEPT ![list[k]] =
                      [stamp |-> StampOf(fs[p], OutName(list[k]))]],
                  parsed \cup {list[k]})

\* run(), after the engine returned 0: the outputs are listed and read.
RunRead(i, unparsable) ==
    /\ pc[i] = "read"
    /\ LET p == RUN_PATH[i] IN
       IF p \notin dirs
       THEN /\ call' = [call EXCEPT ![i].result = "FileNotFoundError"]
            /\ UNCHANGED output
       ELSE LET r == ReadLoop(OUTPUT_LIST[i], 1, p, unparsable, output[i], {})
            IN  /\ output' = [output EXCEPT ![i] = r.out]
                /\ call' = [call EXCEPT ![i].result = r.result,
                                        ![i].msg = r.msg,
                                        ![i].parsed = r.parsed]
    /\ pc' = [pc EXCEPT ![i] = "idle"]
    /\ pending' = [pending EXCEPT ![i] = NoPending]
    /\ streak' = [streak EXCEPT ![i] =
                    IF call'[i].result # "ok" THEN 0
                    ELSE IF @ >= 1 THEN 2 ELSE 1]
    /\ UNCHANGED << SETUP, RUN_PATH, OUTPUT_LIST, dirs, fs, control, engineRuns,
                    setupDone, life, created, management >>
    /\ UNCHANGED << dateVars, soilVars >>

\* ----------------------------------------------------------------- Next
\* The calls and steps of instance i.
Step(i) ==
    \/ \E cwd \in CwdPaths \cup {None}, overwrite \in BOOLEAN,
          tmp \in TmpPaths, allowed \in BOOLEAN :
          Setup(i, cwd, overwrite, tmp, allowed)
    \/ \E inp \in RunInputs : RunCompile(i, inp)
    \/ \E rc \in ReturnCodes, produced \in SUBSET EngineFiles :
          RunExecute(i, rc, produced)
    \/ \E unparsable \in SUBSET OutputNames : RunRead(i, unparsable)
    \/ Close(i)
    \/ \E list \in OutputLists : SetOutputList(i, list)

\* One environment instance, driven by one caller.
Next == Step(Main)

Spec == Init /\ [][Next]_vars

\* The initial-conditions date of a plan the caller constructs: unset, or
\* 16 December 2022.
PlanDates == {Unset, "22350"}

\* The caller constructs a management plan and uses it from now on.
NewPlan(icdat) ==
    /\ pc[Main] = "idle"
    /\ management # [NewManagement EXCEPT !.ICDAT = icdat]
    /\ management' = [NewManagement EXCEPT !.ICDAT = icdat]
    /\ UNCHANGED << SETUP, RUN_PATH, output, OUTPUT_LIST, dirs, fs, control, pc,
                    pending, engineRuns, call, setupDone, streak, life, created >>
    /\ UNCHANGED << dateVars, soilVars >>

\* One environment in directory w1, run with either crop from either start
\* date and with plans the caller constructs; the only failure before the
\* engine is an unknown cultivar.
StepPlan(i) ==
    \/ Setup(i, "w1", FALSE, "t1", TRUE)
    \/ \E inp \in Inputs(SimStarts, Crops, {"none", "KeyError"}) :
          RunCompile(i, inp)
    \/ \E rc \in ReturnCodes : RunExecute(i, rc, {OutName("PlantGro")})
    \/ RunRead(i, {})
    \/ \E icdat \in PlanDates : NewPlan(icdat)

NextPlan == StepPlan(Main)

SpecPlan == Init /\ [][NextPlan]_vars

\* Two ephemeral environments side by side: each instance calls setup()
\* without a path, runs one crop from one start date with an engine that
\* succeeds, and closes; the steps of the two instances interleave.
StepTwo(i) ==
    \/ \E tmp \in TwoTmpPaths : Setup(i, None, FALSE, tmp, TRUE)
    \/ \E inp \in Inputs({ d \in SimStarts : d.yyj = "23001" },
                         { c \in Crops : c.CODE \in CropCodes }, {"none"}) :
          RunCompile(i, inp)
    \/ RunExecute(i, 0, {OutName("PlantGro")})
    \/ RunRead(i, {})
    \/ Close(i)

NextTwo == \E i \in Inst : StepTwo(i)

SpecTwo == Init /\ [][NextTwo]_vars

\* ------------------------------------------------- date reconstruction
\* The decimal digits of x >= 0.
RECURSIVE DigitsOf(_)
DigitsOf(x) == IF x < 10 THEN <<x>> ELSE Append(DigitsOf(x \div 10), x % 10)

RECURSIVE ZeroPad(_, _)
ZeroPad(ds, w) == IF Len(ds) >= w THEN ds ELSE ZeroPad(<<0>> \o ds, w)

\* f'{x:05d}'
Format05d(x) == ZeroPad(DigitsOf(x), 5)

\* (df['@YEAR'] + df['DOY']).map(lambda x: f'{x:05d}'): the columns are
\* integer columns, and + adds them.
Token(y, d) == Format05d(y + d)

Leap(y) == (y % 4 = 0 /\ y % 100 # 0) \/ y % 400 = 0

\* The year a two-digit %y denotes.
YearDenoted(yy) == IF yy < 69 THEN 2000 + yy ELSE 1900 + yy

ValueError == [error |-> "ValueError"]

\* pd.to_datetime(token, format='%y%j'): two digits of year, three of day of
\* year, nothing left over; day 366 of a common year is the next new year.
ParseYJ(tok) ==
    IF Len(tok) # 5 THEN ValueError
    ELSE LET yy == 10 * tok[1] + tok[2]
             jjj == 100 * tok[3] + 10 * tok[4] + tok[5]
             year == YearDenoted(yy)
         IN  IF jjj < 1 \/ jjj > 366 THEN ValueError
             ELSE IF jjj = 366 /\ ~Leap(year) THEN [year |-> year + 1, doy |-> 1]
             ELSE [year |-> year, doy |-> jjj]

\* The index value of a row with @YEAR = y and DOY = d.
DateIndex(y, d) == ParseYJ(Token(y, d))

InitDate ==
    /\ InitProg
    /\ InitSoil
    /\ yr \in 0..MaxYear
    /\ doy \in 1..MaxDoy
    /\ index = NoIndex

\* The index of the row is reconstructed.
Reconstruct ==
    /\ index = NoIndex
    /\ index' = DateIndex(yr, doy)
    /\ UNCHANGED << progVars, yr, doy, soilVars >>

NextDate == Reconstruct

SpecDate == InitDate /\ [][NextDate]_vars

\* ------------------------------------------- initial conditions table
\* Layer depths, and water limits in thousandths; the initial saturation
\* fraction is in tenths, so a water content is in ten-thousandths.
Depths == {5, 15, 30, 60}
LowerLimits == {100, 150}
UpperLimits == {300, 320}
Fractions == {0, 5, 10}
Layer == [depth : Depths, SLLL : LowerLimits, SDUL : UpperLimits]

\* The profiles of n layers: a dict has each depth once, in any order.
Profiles(n) ==
    { l \in [1..n -> Layer] :
        \A j, k \in 1..n : j # k => l[j].depth # l[k].depth }

InitialSwc_Upper(layers, fraction) ==
    [k \in 1..Len(layers) |->
        [ICBL |-> layers[k].depth,
         SH2O |-> 10 * layers[k].SDUL
                    + fraction * (layers[k].SDUL - layers[k].SLLL)]]

\* initial_swc: for depth, layer in soil.layers.items(), the pair of depth
\* and layer['SLLL'] + management.initial_swc * (layer['SDUL'] - layer['SLLL'])
InitialSwc(layers, fraction) ==
    [k \in 1..Len(layers) |->
        [ICBL |-> layers[k].depth,
         SH2O |-> 10 * layers[k].SLLL
                    + fraction * (layers[k].SDUL - layers[k].SLLL)]]

\* A row put into rows that are sorted by ICBL.
RECURSIVE Insert(_, _)
Insert(row, rows) ==
    IF rows = <<>> \/ row.ICBL <= Head(rows).ICBL
    THEN <<row>> \o rows
    ELSE <<Head(rows)>> \o Insert(row, Tail(rows))

RECURSIVE Sorted(_)
Sorted(rows) ==
    IF rows = <<>> THEN <<>> ELSE Insert(Head(rows), Sorted(Tail(rows)))

SortByICBL_None(rows) == rows

\* table.sort_values(by='ICBL').reset_index(drop=True)
SortByICBL(rows) == Sorted(rows)

\* table['SNH4'] = [0.]*len(table); table['SNO3'] = [1.] + [0.]*(len(table)-1):
\* the columns are assigned by position; with no row the second list is one
\* value too long.
WithNitrogen(rows) ==
    IF rows = <<>> THEN ValueError
    ELSE [rows |->
            [k \in 1..Len(rows) |->
                [ICBL |-> rows[k].ICBL, SH2O |-> rows[k].SH2O,
                 SNH4 |-> 0, SNO3 |-> IF k = 1 THEN 1 ELSE 0]]]

\* management.initial_conditions['table']
InitialConditionsTable(layers, fraction) ==
    WithNitrogen(SortByICBL(InitialSwc(layers, fraction)))

InitTable ==
    /\ InitProg
    /\ InitRow
    /\ \E n \in 0..MaxLayers : soilLayers \in Profiles(n)
    /\ initial_swc \in Fractions
    /\ icTable = NoTable

\* The table of the soil is put on the management plan.
BuildTable ==
    /\ icTable = NoTable
    /\ icTable' = InitialConditionsTable(soilLayers, initial_swc)
    /\ UNCHANGED << progVars, dateVars, soilLayers, initial_swc >>

NextTable == BuildTable

SpecTable == InitTable /\ [][NextTable]_vars

\* ---------------------------------------------------------------- claims
\* Instance i starts a call of `op` in this step.
Calls(i, op) == call'[i].tick # call[i].tick /\ call'[i].op = op
\* Instance i leaves the engine invocation, resp. the output reading.
ExecStep(i) == pc[i] = "execute" /\ pc'[i] # "execute"
ReadStep(i) == pc[i] = "read" /\ pc'[i] = "idle"

\* C1: a run() call on an instance on which no setup() call has completed
\* fails with the precondition error, changes nothing on the filesystem and
\* does not invoke the engine.
C1_RunBeforeSetupRejected ==
    [][\A i \in Inst : (Calls(i, "run") /\ ~setupDone[i]) =>
          /\ call'[i].result = "PreconditionError"
          /\ dirs' = dirs /\ fs' = fs /\ control' = control
          /\ engineRuns' = engineRuns
          /\ pc'[i] = "idle"]_vars

\* A run() rejected on an instance whose only setup() call failed.
C1_Witness ==
    \E i \in Inst : /\ call[i].op = "run"
                    /\ call[i].result = "PreconditionError"
                    /\ ~setupDone[i]
                    /\ RUN_PATH[i] # Unset

\* The output entries of a directory.
OutputEntries(p) == { e \in fs[p] : IsOutputFile(e.name) }

\* C2: a run() that follows a successful run() holds no output file when it
\* reaches the engine, and when the second of two successful run() calls in
\* a row returns, the output files of the workspace are exactly the files
\* the second engine execution wrote.
C2_OnlySecondRunOutputs ==
    [][\A i \in Inst :
          /\ (Calls(i, "run") /\ streak[i] >= 1 /\ pc'[i] = "execute") =>
                OutputEntries(RUN_PATH[i])' = {}
          /\ (ReadStep(i) /\ streak'[i] = 2) =>
                OutputEntries(RUN_PATH[i])' =
                    { [name |-> n, stamp |-> call'[i].stamp] :
                        n \in call'[i].produced }]_vars

\* Two successful runs in a row, the first of which wrote an output file
\* (Summary.OUT, read by the first run) that the second did not write.
C2_Witness ==
    \E i \in Inst : /\ streak[i] = 2
                    /\ call[i].op = "run" /\ call[i].result = "ok"
                    /\ OutName("Summary") \notin call[i].produced
                    /\ output[i]["Summary"] # NoTable
                    /\ output[i]["Summary"].stamp = call[i].stamp - 1

\* C3: close() called on an instance that was set up removes the workspace:
\* right after it the directory, its files and its control file are gone.
C3_CloseRemovesWorkspace ==
    [][\A i \in Inst : (Calls(i, "close") /\ SETUP[i]) =>
          /\ RUN_PATH[i] \notin dirs'
          /\ fs'[RUN_PATH[i]] = {}
          /\ control'[RUN_PATH[i]] = NoFile]_vars

\* close() returned after a successful run, and no workspace is left.
C3_Witness ==
    \E i \in Inst : /\ call[i].op = "close" /\ call[i].result = "ok"
                    /\ output[i]["PlantGro"] # NoTable
                    /\ dirs = {}

\* C4 as stated: once close() was called on an instance, the instance is
\* never again about to execute the engine in a staged workspace.
C4_ClosedIsTerminal ==
    \A i \in Inst : life[i] # "new" =>
        ~(SETUP[i] /\ RUN_PATH[i] \in dirs /\ pc[i] = "execute")

\* C4 as amended: after close() and until the next setup() call the
\* workspace directory is absent and no run() reaches the engine.
C4_ClosedUntilSetup ==
    \A i \in Inst : life[i] = "closed" =>
        (RUN_PATH[i] \notin dirs /\ pc[i] = "idle" /\ call[i].engine = 0)

\* run() was called after close() and did not reach the engine.
C4_Witness ==
    \E i \in Inst : /\ life[i] = "closed"
                    /\ setupDone[i]
                    /\ call[i].op = "run"

\* C5: a run() call made after close() (and before any further setup()) is
\* rejected by the precondition check.
C5_RunAfterCloseRejected ==
    \A i \in Inst : (life[i] = "closed" /\ call[i].op = "run") =>
        call[i].result = "PreconditionError"

\* A workspace holds the engine binary and every reference file.
IsStaged(p) ==
    /\ p \in dirs
    /\ BinName \in Names(fs[p])
    /\ CdeFiles \subseteq Names(fs[p])

\* C6: setup() on a path whose workspace is already staged copies no engine
\* binary and leaves every directory with the files it had.
C6_SetupIdempotent ==
    [][\A i \in Inst : (Calls(i, "setup") /\ IsStaged(RUN_PATH'[i])) =>
          /\ ~call'[i].copiedBin
          /\ fs' = fs
          /\ dirs' = dirs]_vars

\* A setup() call that succeeded without copying the binary: the workspace
\* was staged by an earlier setup().
C6_Witness ==
    \E i \in Inst : /\ call[i].op = "setup" /\ call[i].result = "ok"
                    /\ ~call[i].copiedBin

\* C7: when the engine exits with a non-zero code, run() fails with an error
\* naming ERROR.OUT in the workspace, the engine was invoked once in the
\* call, and the call reads and stores no output.
C7_EngineFailureIsFatal ==
    [][\A i \in Inst : (ExecStep(i) /\ call'[i].rc \notin {0, -1}) =>
          /\ call'[i].result = "EngineExecutionError"
          /\ call'[i].msg = Join(Path(RUN_PATH[i]), ErrorOut)
          /\ call'[i].engine = 1
          /\ call'[i].parsed = {}
          /\ output' = output
          /\ pc'[i] = "idle"]_vars

\* A run() that failed on the engine's exit code 1.
C7_Witness ==
    \E i \in Inst : /\ call[i].op = "run"
                    /\ call[i].rc = 1
                    /\ call[i].result = "EngineExecutionError"

\* C8: run() returns normally only if every requested <name>.OUT was in the
\* workspace after the engine exited with code 0 and its table is stored
\* under the name; with a requested file absent, run() fails.
C8_MissingOutputIsFatal ==
    [][\A i \in Inst : ReadStep(i) =>
          LET p == RUN_PATH[i]
              list == OUTPUT_LIST[i]
          IN  /\ call'[i].result = "ok" =>
                    /\ call[i].rc = 0
                    /\ \A k \in 1..Len(list) :
                          /\ OutName(list[k]) \in Names(fs[p])
                          /\ output'[i][list[k]] =
                                [stamp |-> StampOf(fs[p], OutName(list[k]))]
              /\ (\E k \in 1..Len(list) : OutName(list[k]) \notin Names(fs[p]))
                    => call'[i].result \in {"OutputMissingError", "ParseError"}]_vars

\* A run() that failed on the second requested output after it stored the
\* first.
C8_Witness ==
    \E i \in Inst : /\ call[i].op = "run"
                    /\ call[i].result = "OutputMissingError"
                    /\ call[i].parsed = {"PlantGro"}

\* C9: the index reconstructed for a row with two-digit @YEAR y and DOY d is
\* day d of the year y denotes.
C9_DateIsDayOfYear ==
    index # NoIndex => index = [year |-> YearDenoted(yr), doy |-> doy]

\* C10 as stated: when the engine is invoked, the weather, soil and genotype
\* lines of the control file name the directories the weather, soil and
\* crop files were written to, and the registration line the workspace.
C10_ControlMatchesWritten ==
    \A i \in Inst : pc[i] = "execute" =>
        LET c == control[RUN_PATH[i]]
            w == pending[i].wrote
        IN  /\ c.WED = w.weather
            /\ c.SLD = Dirname(w.soil)
            /\ c.CRD = w.crop
            /\ c.MMZ.dir = Path(RUN_PATH[i])

\* C10 as amended: the weather line names the directory the weather was
\* written to and the registration line the workspace; the soil and crop
\* files are written into the workspace, while the soil and genotype lines
\* name the static reference directories.
C10_ControlWeatherAndWorkspace ==
    \A i \in Inst : pc[i] = "execute" =>
        LET p == RUN_PATH[i]
            c == control[p]
            w == pending[i].wrote
        IN  /\ c.WED = w.weather
            /\ Dirname(w.weather) = Path(p)
            /\ WeatherName \in Names(fs[p])
            /\ c.MMZ.dir = Path(p)
            /\ Dirname(w.soil) = Path(p)
            /\ SoilName \in Names(fs[p])
            /\ w.crop = Path(p)
            /\ c.SLD = SLD_PATH /\ c.SLD # Dirname(w.soil)
            /\ c.CRD = CRD_PATH /\ c.CRD # w.crop

\* The engine is about to be invoked on freshly written inputs.
C10_Witness ==
    \E i \in Inst : /\ pc[i] = "execute"
                    /\ control[RUN_PATH[i]] # NoFile
                    /\ ControlName \in Names(fs[RUN_PATH[i]])

\* C11: for a profile of at least one layer, stored in any order, the table
\* has one row per layer, in strictly ascending depth; the first row has
\* nitrate 1 and every other row nitrate 0; every row has ammonium 0.
C11_TableSortedAndSeeded ==
    (icTable # NoTable /\ Len(soilLayers) >= 1) =>
        LET t == icTable.rows
        IN  /\ Len(t) = Len(soilLayers)
            /\ { t[k].ICBL : k \in 1..Len(t) } =
                 { soilLayers[k].depth : k \in 1..Len(soilLayers) }
            /\ \A k \in 1..(Len(t) - 1) : t[k].ICBL < t[k + 1].ICBL
            /\ t[1].SNO3 = 1
            /\ \A k \in 2..Len(t) : t[k].SNO3 = 0
            /\ \A k \in 1..Len(t) : t[k].SNH4 = 0

\* The table of a three-layer profile whose shallowest layer is stored last.
C11_Witness ==
    /\ icTable # NoTable
    /\ Len(soilLayers) = 3
    /\ soilLayers[3].depth < soilLayers[2].depth
    /\ soilLayers[2].depth < soilLayers[1].depth

\* C12: the row of every layer holds SLLL + initial_swc * (SDUL - SLLL) of
\* that layer's own limits (in ten-thousandths, the fraction in tenths); for
\* limits 0.100 and 0.300 and fraction 0.5 it is 0.2000.
C12_InitialWaterContent ==
    (icTable # NoTable /\ Len(soilLayers) >= 1) =>
        \A k \in 1..Len(soilLayers) :
            \E r \in 1..Len(icTable.rows) :
                LET row == icTable.rows[r]
                IN  /\ row.ICBL = soilLayers[k].depth
                    /\ row.SH2O - 10 * soilLayers[k].SLLL =
                         initial_swc * (soilLayers[k].SDUL - soilLayers[k].SLLL)
                    /\ (soilLayers[k].SLLL = 100 /\ soilLayers[k].SDUL = 300
                            /\ initial_swc = 5) => row.SH2O = 2000

\* The table of a profile whose second stored layer has limits 0.100 and
\* 0.300, at fraction 0.5, next to a layer with other limits.
C12_Witness ==
    /\ icTable # NoTable /\ icTable # ValueError
    /\ initial_swc = 5
    /\ Len(soilLayers) >= 2
    /\ soilLayers[2].SLLL = 100 /\ soilLayers[2].SDUL = 300
    /\ soilLayers[1].SLLL = 150 /\ soilLayers[1].SDUL = 320
    /\ soilLayers[2].depth < soilLayers[1].depth

\* C13: at any time at most one directory created by an instance exists, so
\* close() leaves no directory created by an earlier setup() of that instance.
C13_OneWorkspacePerInstance ==
    \A i \in Inst : Cardinality(created[i]) <= 1

\* A step of instance i: a new call, or a further step of its run() call.
ActsIn(i) == call'[i] # call[i] \/ pc'[i] # pc[i]

\* C14: two instances that call setup() without a path never hold the same
\* workspace path, and no step of one removes a directory the other created
\* or changes the files in it.
C14_ExclusiveOwnership ==
    [][\A i, j \in Inst :
          i # j =>
            /\ RUN_PATH'[i] # Unset => RUN_PATH'[i] # RUN_PATH'[j]
            /\ ActsIn(i) =>
                  \A p \in created[j] : p \in dirs' /\ fs'[p] = fs[p]]_vars

\* C15: a setup(overwrite=True) that returns on an instance whose last call
\* was a successful run() leaves the output mapping empty and the workspace
\* with nothing but the engine binary and the reference files.
C15_OverwriteResets ==
    [][\A i \in Inst :
          \A cwd \in CwdPaths \cup {None}, tmp \in TmpPaths, allowed \in BOOLEAN :
             (/\ streak[i] >= 1
              /\ Setup(i, cwd, TRUE, tmp, allowed)
              /\ call'[i].result = "ok") =>
                /\ \A n \in OutputNames : output'[i][n] = NoTable
                /\ Names(fs'[RUN_PATH'[i]]) \subseteq {BinName} \cup CdeFiles]_vars

\* The workspace p is compiled for the run() call in progress of instance i:
\* it holds no output file, the plan is cross-linked, and the management,
\* crop, soil and weather files and the control file are written.
Compiled(i, p) ==
    /\ OutputEntries(p) = {}
    /\ management.ICDAT # Unset /\ management.SMODEL # Unset
    /\ \E inp \in RunInputs :
          /\ pending[i].management_filename = ManagementFilename(p, inp)
          /\ {ManagementName(inp), SoilName, WeatherName, ControlName}
                \cup CropFiles(inp) \subseteq Names(fs[p])
    /\ control[p] # NoFile

\* C16: in every run() call the engine is invoked only from a compiled
\* workspace, right after the compilation of that call; the outputs are read
\* only right after the engine of that call exited with code 0; and the
\* output mapping changes in no other step.
C16_CompileExecuteRead ==
    [][\A i \in Inst :
          /\ pc'[i] = "execute" => (pc[i] = "idle" /\ Calls(i, "run"))
          /\ pc[i] = "execute" => Compiled(i, RUN_PATH[i])
          /\ engineRuns' # engineRuns =>
                (\E j \in Inst : pc[j] = "execute" /\ call[j].engine = 0)
          /\ pc'[i] = "read" =>
                (pc[i] = "execute" /\ call'[i].engine = 1 /\ call'[i].rc = 0)
          /\ output'[i] # output[i] => (pc[i] = "read" /\ call[i].rc = 0)]_vars

\* The outputs of the second of two runs in a row are about to be read.
C16_Witness ==
    /\ pc[Main] = "read"
    /\ streak[Main] >= 1
    /\ call[Main].engine = 1 /\ call[Main].rc = 0

\* C17: a setup() call whose directory creation fails copies no file,
\* creates no directory, and leaves the readiness flag and the workspace
\* path of the instance as they were before the call.
C17_MkdirErrorAborts ==
    [][\A i \in Inst :
          (Calls(i, "setup") /\ call'[i].result = "SetupError") =>
             /\ fs' = fs /\ dirs' = dirs
             /\ SETUP'[i] = SETUP[i]
             /\ RUN_PATH'[i] = RUN_PATH[i]]_vars

\* C18: after the cross-linking step of a run() call the initial-conditions
\* date is the one the plan had before the call if it had one, and otherwise
\* the '%y%j' form of the start date of that call; a second run of the same
\* plan from another start date keeps the date of the first.
C18_ICDATOnlyWhenUnset ==
    [][\A i \in Inst :
          (Calls(i, "run") /\ call'[i].start # Unset) =>
             management'.ICDAT =
                IF management.ICDAT # Unset THEN management.ICDAT
                ELSE call'[i].start]_vars

\* The second of two runs in a row starts on 15 January with a plan whose
\* initial-conditions date the first run set to 1 January.
C18_Witness ==
    /\ pc[Main] = "execute"
    /\ streak[Main] >= 1
    /\ call[Main].start = "23015"
    /\ management.ICDAT = "23001"

\* C19: when the engine is invoked, the model code on the MMZ line of the
\* control file is the model identifier run() copied from the crop into the
\* simulation controls of the plan.
C19_RegistrationNamesCropModel ==
    \A i \in Inst :
        pc[i] = "execute" =>
            control[RUN_PATH[i]].MMZ.model = management.SMODEL

\* The failures of a run() call: of the precondition, of a delegate write,
\* of the engine, of the check that an output file exists.
RunFailures ==
    {"PreconditionError", "WriteError", "EngineExecutionError",
     "OutputMissingError"}

\* A run() call of instance i fails in this step.
RunFails(i) ==
    /\ Calls(i, "run") \/ ExecStep(i) \/ ReadStep(i)
    /\ call'[i].result \in RunFailures

\* C20 as stated: a run() call that fails leaves the output mapping exactly
\* as it was before the call.
C20_FailedRunKeepsOutputs ==
    [][\A i \in Inst : RunFails(i) => output'[i] = output[i]]_vars

\* C20: a run() call that fails before the read loop, or with a list of one
\* name, leaves the output mapping as it was; one that fails on a missing
\* file of a longer list has replaced the tables of the names read before
\* it by this run's tables and leaves every other name as it was.
C20_FailedRunKeepsUnreadOutputs ==
    [][\A i \in Inst :
          RunFails(i) =>
            /\ \A n \in OutputNames :
                  output'[i][n] = IF n \in call'[i].parsed
                                  THEN [stamp |-> call'[i].stamp]
                                  ELSE output[i][n]
            /\ call'[i].result # "OutputMissingError" => call'[i].parsed = {}
            /\ Len(OUTPUT_LIST[i]) = 1 => output'[i] = output[i]]_vars

\* A run whose second output file is missing follows a successful run: the
\* first name holds the table of this run, the second the table of the
\* earlier run, whose file is gone.
C20_Witness ==
    /\ call[Main].op = "run"
    /\ call[Main].result = "OutputMissingError"
    /\ call[Main].parsed = {"PlantGro"}
    /\ output[Main]["PlantGro"] = [stamp |-> 2]
    /\ output[Main]["Summary"] = [stamp |-> 1]
    /\ OutName("Summary") \notin Names(fs[RUN_PATH[Main]])

====
